---------------------------- MODULE Spec2Model ----------------------------
(***************************************************************************)
(* Model of src/main.py: a Telegram bot that deletes media messages of a   *)
(* group after a per-group TTL, with admin commands that change the        *)
(* per-group settings kept in a sqlite table.                              *)
(*                                                                         *)
(* Text is modelled as a sequence of symbols.  A symbol is a one-character *)
(* string ("1", "m", ",", " ") or, for the names of media kinds, the whole *)
(* name taken as one symbol ("photo"), so that "photo,banana" is           *)
(* <<"photo", ",", "banana">> and "10m" is <<"1", "0", "m">>.              *)
(***************************************************************************)
EXTENDS Integers, Sequences, FiniteSets, TLC

VARIABLES
    DEFAULT_TTL,            \* src/main.py:25, read from the environment
    DEFAULT_ENABLED,        \* src/main.py:27
    DEFAULT_DELETE_ADMINS,  \* src/main.py:26
    DEFAULT_TYPES,          \* src/main.py:30
    group_settings,         \* the sqlite table: chat_id -> row
    update_queue,           \* updates fetched by run_polling, not yet handled
    tasks                   \* one frame per handler call, in dispatch order

vars == <<DEFAULT_TTL, DEFAULT_ENABLED, DEFAULT_DELETE_ADMINS, DEFAULT_TYPES,
          group_settings, update_queue, tasks>>

env == <<DEFAULT_TTL, DEFAULT_ENABLED, DEFAULT_DELETE_ADMINS, DEFAULT_TYPES>>

---------------------------------------------------------------------------
(* Bounds of the model *)

\* updates delivered in one run
MaxUpdates == 2

\* unit steps of the clock a sleeping handler sees (besides the steps that
\* take the clock to a sleeper's deadline)
MaxTime == 1

---------------------------------------------------------------------------
(* Text *)

Str(sym) == <<sym>>

Digit == {"0", "1", "2", "3", "4", "5", "6", "7", "8", "9"}

DigitVal(c) ==
    CASE c = "0" -> 0 [] c = "1" -> 1 [] c = "2" -> 2 [] c = "3" -> 3
      [] c = "4" -> 4 [] c = "5" -> 5 [] c = "6" -> 6 [] c = "7" -> 7
      [] c = "8" -> 8 [] c = "9" -> 9

\* str.lower() on one symbol
LowerSym(c) ==
    CASE c = "M" -> "m" [] c = "H" -> "h" [] c = "D" -> "d"
      [] c = "O" -> "o" [] c = "N" -> "n" [] c = "F" -> "f"
      [] c = "PHOTO" -> "photo"
      [] OTHER -> c

lower(s) == [i \in 1..Len(s) |-> LowerSym(s[i])]

RECURSIVE lstrip(_)
lstrip(s) == IF s # <<>> /\ Head(s) = " " THEN lstrip(Tail(s)) ELSE s

RECURSIVE rstrip(_)
rstrip(s) ==
    IF s # <<>> /\ s[Len(s)] = " " THEN rstrip(SubSeq(s, 1, Len(s) - 1)) ELSE s

strip(s) == rstrip(lstrip(s))

\* str.replace(old, "") for a one-symbol old
remove(s, old) == SelectSeq(s, LAMBDA c : c # old)

\* str.split(sep): the pieces between the separators, "" included
RECURSIVE split(_, _)
split(s, sep) ==
    IF \A i \in 1..Len(s) : s[i] # sep
    THEN <<s>>
    ELSE LET k == CHOOSE i \in 1..Len(s) :
                      s[i] = sep /\ \A j \in 1..(i - 1) : s[j] # sep
         IN  <<SubSeq(s, 1, k - 1)>> \o split(SubSeq(s, k + 1, Len(s)), sep)

\* sep.join(parts)
RECURSIVE join(_, _)
join(sep, parts) ==
    IF parts = <<>> THEN <<>>
    ELSE IF Len(parts) = 1 THEN parts[1]
    ELSE parts[1] \o sep \o join(sep, Tail(parts))

Range(f) == {f[i] : i \in DOMAIN f}

\* int() of a string of digits
RECURSIVE int(_)
int(s) == IF s = <<>> THEN 0 ELSE 10 * int(SubSeq(s, 1, Len(s) - 1)) + DigitVal(s[Len(s)])

\* re.fullmatch(r"\d+", s)
IsDigits(s) == s # <<>> /\ \A i \in 1..Len(s) : s[i] \in Digit

\* the strings of the model in Python's order, which sorted() follows
SortOrder ==
    << Str("animation"), Str("banana"), Str("document"), Str("photo"),
       Str("sticker"), Str("video"), Str("video_note"), Str("voice") >>

sorted(S) == SelectSeq(SortOrder, LAMBDA t : t \in S)

VALID_TYPES ==
    { Str("photo"), Str("video"), Str("document"), Str("voice"),
      Str("sticker"), Str("animation"), Str("video_note") }

---------------------------------------------------------------------------
(* parse_seconds: [ok |-> TRUE, val |-> n], or ok = FALSE for ValueError *)

ValueError == [ok |-> FALSE, val |-> 0]

Seconds(n) == [ok |-> TRUE, val |-> n]

\* parse_seconds that reads the leading digits and ignores what follows them
parse_seconds_lenient(arg0) ==
    LET arg == lower(strip(arg0))
        k   == IF \E i \in 1..Len(arg) : arg[i] \notin Digit
               THEN (CHOOSE i \in 1..Len(arg) :
                        arg[i] \notin Digit /\ \A j \in 1..(i - 1) : arg[j] \in Digit) - 1
               ELSE Len(arg)
    IN  IF k = 0 THEN ValueError ELSE Seconds(int(SubSeq(arg, 1, k)))

\* parse_seconds that takes the hours for minutes
parse_seconds_hours_as_minutes(arg0) ==
    LET arg == lower(strip(arg0))
        n   == Len(arg)
    IN  IF IsDigits(arg) THEN Seconds(int(arg))
        ELSE IF n >= 2 /\ IsDigits(SubSeq(arg, 1, n - 1)) /\ arg[n] \in {"m", "h", "d"}
        THEN LET val  == int(SubSeq(arg, 1, n - 1))
                 unit == arg[n]
             IN  IF unit \in {"m", "h"} THEN Seconds(val * 60)
                 ELSE Seconds(val * 86400)
        ELSE ValueError

parse_seconds(arg0) ==
    LET arg == lower(strip(arg0))
        n   == Len(arg)
    IN  IF IsDigits(arg) THEN Seconds(int(arg))
        ELSE IF n >= 2 /\ IsDigits(SubSeq(arg, 1, n - 1)) /\ arg[n] \in {"m", "h", "d"}
        THEN LET val  == int(SubSeq(arg, 1, n - 1))
                 unit == arg[n]
             IN  IF unit = "m" THEN Seconds(val * 60)
                 ELSE IF unit = "h" THEN Seconds(val * 3600)
                 ELSE Seconds(val * 86400)
        ELSE ValueError

---------------------------------------------------------------------------
(* The sqlite table and the settings read from it *)

\* int(b) and bool(n) of the columns enabled and delete_admins
BoolToInt(b) == IF b THEN 1 ELSE 0

IntToBool(n) == n # 0

\* the dict get_settings returns for a row of the table
RowSettings(row) ==
    [ ttl           |-> row.ttl_seconds,
      enabled       |-> IntToBool(row.enabled),
      delete_admins |-> IntToBool(row.delete_admins),
      types         |-> { strip(t) : t \in
                            { p \in Range(split(row.media_types, ",")) : strip(p) # <<>> } } ]

DefaultSettings ==
    [ ttl           |-> DEFAULT_TTL,
      enabled       |-> DEFAULT_ENABLED,
      delete_admins |-> DEFAULT_DELETE_ADMINS,
      types         |-> DEFAULT_TYPES ]

\* get_settings against a given content of the table
SettingsIn(table, chat_id) ==
    IF chat_id \notin DOMAIN table THEN DefaultSettings
    ELSE RowSettings(table[chat_id])

get_settings(chat_id) == SettingsIn(group_settings, chat_id)

\* a row with the two flags in each other's column
Row_swapped(ttl, enabled, delete_admins, types) ==
    [ ttl_seconds   |-> ttl,
      enabled       |-> BoolToInt(delete_admins),
      delete_admins |-> BoolToInt(enabled),
      media_types   |-> join(Str(","), sorted(types)) ]

\* the row save_settings writes
Row(ttl, enabled, delete_admins, types) ==
    [ ttl_seconds   |-> ttl,
      enabled       |-> BoolToInt(enabled),
      delete_admins |-> BoolToInt(delete_admins),
      media_types   |-> join(Str(","), sorted(types)) ]

\* an upsert whose UPDATE is not bound to the conflicting row
save_settings_all(chat_id, ttl, enabled, delete_admins, types) ==
    [ c \in DOMAIN group_settings \cup {chat_id} |->
        [ ttl_seconds   |-> ttl,
          enabled       |-> BoolToInt(enabled),
          delete_admins |-> BoolToInt(delete_admins),
          media_types   |-> join(Str(","), sorted(types)) ] ]

\* INSERT ... ON CONFLICT(chat_id) DO UPDATE: the table after save_settings
save_settings(chat_id, ttl, enabled, delete_admins, types) ==
    [ c \in DOMAIN group_settings \cup {chat_id} |->
        IF c = chat_id THEN Row(ttl, enabled, delete_admins, types)
        ELSE group_settings[c] ]

---------------------------------------------------------------------------
(* Chats, users and the updates the platform delivers *)

None == "None"

Chats == {"G1", "G2", "P"}

ChatType(chat) ==
    CASE chat = "G1" -> "group" [] chat = "G2" -> "supergroup" [] OTHER -> "private"

\* what get_chat_member answers when it answers
MemberStatus(chat, user) ==
    CASE chat = "G1" /\ user = "U1" -> "creator"
      [] chat = "G2" /\ user = "U1" -> "administrator"
      [] OTHER -> "member"

\* the changes of role the platform reports (updates of the kind chat_member)
RoleEvents == {"promoted", "demoted"}

\* the updates the platform has sent so far, in the order it sent them
History == [k \in 1..Len(tasks) |-> tasks[k].upd] \o update_queue

\* the status the platform holds for a user now: the one of the last change
\* of role it has reported for the user, or the one the user began with
get_chat_member(chat, user) ==
    LET changes == { k \in 1..Len(History) :
                        /\ History[k].cmd \in RoleEvents
                        /\ History[k].chat = chat
                        /\ History[k].user = user }
    IN  IF changes = {} THEN MemberStatus(chat, user)
        ELSE LET last == CHOOSE k \in changes : \A j \in changes : j <= k
             IN  IF History[last].cmd = "promoted" THEN "administrator" ELSE "member"

\* a lookup answers with the status, or raises
LookupError == "error"

LookupResults(chat, user) == {get_chat_member(chat, user), LookupError}

TtlArgs ==
    { <<"a", "b", "c">>, <<"1", "0", "x">>, <<"-", "5">>, <<"5">>,
      <<"1", "0">>, <<"1", "M">>, <<"8", "d">> }

OnOffArgs == { <<"o", "n">>, <<"O", "F", "F">>, <<"x">> }

TypesArgs ==
    { << <<"photo", ",", "banana">> >>,
      << <<"PHOTO", ",">>, <<"voice">> >>,
      << <<",">> >> }

Upd(cmd, chat, user, args, probes) ==
    [cmd |-> cmd, chat |-> chat, user |-> user, args |-> args, probes |-> probes]

GatedCommands == {"setttl", "pause", "resume", "deleteadmins", "types"}

\* the commands an admin of G1 sends
AdminUpdates ==
    { Upd("setttl", "G1", "U1", <<a>>, {}) : a \in TtlArgs }
    \cup { Upd("deleteadmins", "G1", "U1", <<a>>, {}) : a \in OnOffArgs }
    \cup { Upd("types", "G1", "U1", a, {}) : a \in TypesArgs }
    \cup { Upd(c, "G1", "U1", <<>>, {}) : c \in {"setttl", "pause", "resume"} }

\* commands of a member, of a sender without a user, in the other chats
OtherUpdates ==
    { Upd("pause", "G1", "U2", <<>>, {}),
      Upd("resume", "G1", None, <<>>, {}),
      Upd("status", "G1", "U2", <<>>, {}),
      Upd("start", "G1", "U2", <<>>, {}),
      Upd("pause", "G2", "U1", <<>>, {}) }

ProbeSets == { {"photo"}, {"voice"}, {"document", "animation"} }

MediaUpdates ==
    { Upd("media", "G1", u, <<>>, {"photo"}) : u \in {"U1", "U2", None} }
    \cup { Upd("media", "G1", "U2", <<>>, p) : p \in ProbeSets }
    \cup { Upd("media", "G2", "U2", <<>>, {"photo"}),
           Upd("media", "P", "U2", <<>>, {"photo"}) }

Updates == AdminUpdates \cup OtherUpdates \cup MediaUpdates

\* the environments the process is started in: the defaults of the source,
\* and one that sets the four variables
Environments ==
    { [ttl |-> 300, enabled |-> TRUE, delete_admins |-> FALSE,
       types |-> {Str("photo"), Str("video"), Str("document")}],
      [ttl |-> 5, enabled |-> FALSE, delete_admins |-> TRUE,
       types |-> {Str("voice")}] }

---------------------------------------------------------------------------
(* Handler frames *)

NoSettings == [ttl |-> 0, enabled |-> FALSE, delete_admins |-> FALSE, types |-> {}]

\* a frame that ended before any await
Ended(u, s, result) ==
    [ upd |-> [u EXCEPT !.args = <<>>], pc |-> "done", s |-> s, member |-> None, slept |-> 0,
      attempts |-> 0, result |-> result ]

\* a frame suspended in get_chat_member
Looking(u, s) ==
    [ upd |-> u, pc |-> "get_chat_member", s |-> s, member |-> None,
      slept |-> 0, attempts |-> 0, result |-> "" ]

\* a frame suspended in asyncio.sleep; slept is the time since the sleep began
Sleeping(u, s, member) ==
    [ upd |-> u, pc |-> "sleep", s |-> s, member |-> member,
      slept |-> 0, attempts |-> 0, result |-> "" ]

\* of a handler that has returned the model keeps the update without its
\* arguments, the answer of the lookup and how the handler ended
Finish(i, result, member) ==
    tasks' = [tasks EXCEPT ![i].pc = "done", ![i].result = result,
                           ![i].member = member, ![i].upd.args = <<>>]

\* the test for ADMINISTRATOR alone
IsAdminStatus_no_owner(status) == status = "administrator"

IsAdminStatus(status) == status \in {"administrator", "creator"}

Init ==
    /\ \E e \in Environments :
          /\ DEFAULT_TTL = e.ttl
          /\ DEFAULT_ENABLED = e.enabled
          /\ DEFAULT_DELETE_ADMINS = e.delete_admins
          /\ DEFAULT_TYPES = e.types
    /\ group_settings = <<>>
    /\ update_queue = <<>>
    /\ tasks = <<>>

---------------------------------------------------------------------------
(* Classification *)

NoMedia == <<>>

\* a classification that tests the video before the photo
detect_media_type_video_first(probes) ==
    IF "video" \in probes THEN Str("video")
    ELSE IF "photo" \in probes THEN Str("photo")
    ELSE IF "document" \in probes THEN Str("document")
    ELSE IF "voice" \in probes THEN Str("voice")
    ELSE IF "sticker" \in probes THEN Str("sticker")
    ELSE IF "animation" \in probes THEN Str("animation")
    ELSE IF "video_note" \in probes THEN Str("video_note")
    ELSE NoMedia

detect_media_type(probes) ==
    IF "photo" \in probes THEN Str("photo")
    ELSE IF "video" \in probes THEN Str("video")
    ELSE IF "document" \in probes THEN Str("document")
    ELSE IF "voice" \in probes THEN Str("voice")
    ELSE IF "sticker" \in probes THEN Str("sticker")
    ELSE IF "animation" \in probes THEN Str("animation")
    ELSE IF "video_note" \in probes THEN Str("video_note")
    ELSE NoMedia

---------------------------------------------------------------------------
(* The dispatcher *)

\* ApplicationBuilder().token(TOKEN).build() leaves concurrent_updates at its
\* default and every handler is registered blocking: the application awaits
\* the handler of one update before it takes the next update from the queue
concurrent_updates == FALSE

Idle == \A i \in 1..Len(tasks) : tasks[i].pc = "done"

Delivered == Len(tasks) + Len(update_queue)

\* run_polling puts a fetched update on the queue
Deliver(u) ==
    /\ Delivered < MaxUpdates
    /\ update_queue' = Append(update_queue, u)
    /\ UNCHANGED <<env, group_settings, tasks>>

\* the application takes the next update and calls its handler with frame f
\* being what the handler has become at its first await (or at its return)
Dispatch(concurrent, f) ==
    /\ update_queue # <<>>
    /\ concurrent \/ Idle
    /\ update_queue' = Tail(update_queue)
    /\ tasks' = Append(tasks, f)
    /\ UNCHANGED <<env, group_settings>>

Next_update == Head(update_queue)

CanDispatch(concurrent) == update_queue # <<>> /\ (concurrent \/ Idle)

---------------------------------------------------------------------------
(* Handlers, up to their first await *)

cmd_start(concurrent) ==
    /\ CanDispatch(concurrent)
    /\ Next_update.cmd = "start"
    /\ Dispatch(concurrent, Ended(Next_update, NoSettings, "replied"))

\* a /status that stores the defaults it shows for a group without a row
cmd_status_persist(concurrent) ==
    /\ CanDispatch(concurrent)
    /\ Next_update.cmd = "status"
    /\ update_queue' = Tail(update_queue)
    /\ tasks' = Append(tasks, Ended(Next_update, get_settings(Next_update.chat), "replied"))
    /\ group_settings' =
          IF Next_update.chat \in DOMAIN group_settings THEN group_settings
          ELSE save_settings(Next_update.chat, DEFAULT_TTL, DEFAULT_ENABLED,
                             DEFAULT_DELETE_ADMINS, DEFAULT_TYPES)
    /\ UNCHANGED env

cmd_status(concurrent) ==
    /\ CanDispatch(concurrent)
    /\ Next_update.cmd = "status"
    /\ \E db_ok \in BOOLEAN :
          Dispatch(concurrent,
                   IF db_ok
                   THEN Ended(Next_update, get_settings(Next_update.chat), "replied")
                   ELSE Ended(Next_update, NoSettings, "raised"))

\* is_admin up to get_chat_member: without a user the answer is False at once
\* and require_admin replies with the rejection
require_admin(concurrent) ==
    /\ CanDispatch(concurrent)
    /\ Next_update.cmd \in GatedCommands
    /\ Dispatch(concurrent,
                IF Next_update.user = None
                THEN Ended(Next_update, NoSettings, "rejected")
                ELSE Looking(Next_update, NoSettings))

\* a handler that catches the error of the read and goes on without settings
MediaFrame_swallow(u, db_ok) ==
    IF ChatType(u.chat) \notin {"group", "supergroup"}
    THEN Ended(u, NoSettings, "returned")
    ELSE IF ~db_ok THEN Sleeping(u, NoSettings, None)
    ELSE LET s          == get_settings(u.chat)
             media_type == detect_media_type(u.probes)
         IN  IF ~s.enabled THEN Ended(u, s, "returned")
             ELSE IF media_type = NoMedia \/ media_type \notin s.types
             THEN Ended(u, s, "returned")
             ELSE IF ~s.delete_admins /\ u.user # None THEN Looking(u, s)
             ELSE Sleeping(u, s, None)

\* a handler that looks the author up without testing that there is one
MediaFrame_always_lookup(u, db_ok) ==
    IF ChatType(u.chat) \notin {"group", "supergroup"}
    THEN Ended(u, NoSettings, "returned")
    ELSE IF ~db_ok THEN Ended(u, NoSettings, "raised")
    ELSE LET s          == get_settings(u.chat)
             media_type == detect_media_type(u.probes)
         IN  IF ~s.enabled THEN Ended(u, s, "returned")
             ELSE IF media_type = NoMedia \/ media_type \notin s.types
             THEN Ended(u, s, "returned")
             ELSE IF ~s.delete_admins THEN Looking(u, s)
             ELSE Sleeping(u, s, None)

\* handle_media up to the membership lookup or the sleep
MediaFrame(u, db_ok) ==
    IF ChatType(u.chat) \notin {"group", "supergroup"}
    THEN Ended(u, NoSettings, "returned")
    ELSE IF ~db_ok THEN Ended(u, NoSettings, "raised")
    ELSE LET s          == get_settings(u.chat)
             media_type == detect_media_type(u.probes)
         IN  IF ~s.enabled THEN Ended(u, s, "returned")
             ELSE IF media_type = NoMedia \/ media_type \notin s.types
             THEN Ended(u, s, "returned")
             ELSE IF ~s.delete_admins /\ u.user # None THEN Looking(u, s)
             ELSE Sleeping(u, s, None)

handle_media(concurrent) ==
    /\ CanDispatch(concurrent)
    /\ Next_update.cmd = "media"
    /\ \E db_ok \in BOOLEAN : Dispatch(concurrent, MediaFrame(Next_update, db_ok))

---------------------------------------------------------------------------
(* Handlers, after get_chat_member *)

InLookup(i, cmd) ==
    /\ i \in 1..Len(tasks)
    /\ tasks[i].pc = "get_chat_member"
    /\ tasks[i].upd.cmd = cmd

\* a gate that lets every sender pass
is_admin_open(status) == TRUE

\* is_admin's answer for the status get_chat_member returned
is_admin(status) == IsAdminStatus(status)

\* what every gated command does with the lookup's result before its own
\* body: the error leaves the handler, a non-admin is rejected
Gate(i, res) ==
    IF res = LookupError THEN Finish(i, "raised", res) /\ UNCHANGED group_settings
    ELSE IF ~is_admin(res) THEN Finish(i, "rejected", res) /\ UNCHANGED group_settings
    ELSE FALSE

Passed(res) == res # LookupError /\ is_admin(res)

\* the body ends without a write
Reply(i, res, result) == Finish(i, result, res) /\ UNCHANGED group_settings

\* the body writes the table, or the store fails and the error leaves it
Save(i, res, db_ok, table) ==
    IF db_ok THEN Finish(i, "saved", res) /\ group_settings' = table
    ELSE Finish(i, "raised", res) /\ UNCHANGED group_settings

TTL_MIN == 10

TTL_MAX == 7 * 86400

cmd_setttl(i) ==
    /\ InLookup(i, "setttl")
    /\ \E res \in LookupResults(tasks[i].upd.chat, tasks[i].upd.user), db_ok \in BOOLEAN :
          LET u   == tasks[i].upd
              ttl == parse_seconds(u.args[1])
              s   == get_settings(u.chat)
          IN  \/ Gate(i, res)
              \/ /\ Passed(res)
                 /\ IF u.args = <<>> THEN Reply(i, res, "usage")
                    ELSE IF ~ttl.ok THEN Reply(i, res, "invalid")
                    ELSE IF ttl.val < TTL_MIN \/ ttl.val > TTL_MAX
                    THEN Reply(i, res, "invalid")
                    ELSE Save(i, res, db_ok,
                              save_settings(u.chat, ttl.val, s.enabled,
                                            s.delete_admins, s.types))
    /\ UNCHANGED <<env, update_queue>>

\* a /pause that writes back the settings its frame held before the lookup
\* instead of reading the table after it
cmd_pause_stale(i) ==
    /\ InLookup(i, "pause")
    /\ \E res \in LookupResults(tasks[i].upd.chat, tasks[i].upd.user), db_ok \in BOOLEAN :
          LET u == tasks[i].upd
              s == tasks[i].s
          IN  \/ Gate(i, res)
              \/ /\ Passed(res)
                 /\ Save(i, res, db_ok,
                         save_settings(u.chat, s.ttl, FALSE, s.delete_admins, s.types))
    /\ UNCHANGED <<env, update_queue>>

cmd_pause(i) ==
    /\ InLookup(i, "pause")
    /\ \E res \in LookupResults(tasks[i].upd.chat, tasks[i].upd.user), db_ok \in BOOLEAN :
          LET u == tasks[i].upd
              s == get_settings(u.chat)
          IN  \/ Gate(i, res)
              \/ /\ Passed(res)
                 /\ Save(i, res, db_ok,
                         save_settings(u.chat, s.ttl, FALSE, s.delete_admins, s.types))
    /\ UNCHANGED <<env, update_queue>>

cmd_resume(i) ==
    /\ InLookup(i, "resume")
    /\ \E res \in LookupResults(tasks[i].upd.chat, tasks[i].upd.user), db_ok \in BOOLEAN :
          LET u == tasks[i].upd
              s == get_settings(u.chat)
          IN  \/ Gate(i, res)
              \/ /\ Passed(res)
                 /\ Save(i, res, db_ok,
                         save_settings(u.chat, s.ttl, TRUE, s.delete_admins, s.types))
    /\ UNCHANGED <<env, update_queue>>

cmd_deleteadmins(i) ==
    /\ InLookup(i, "deleteadmins")
    /\ \E res \in LookupResults(tasks[i].upd.chat, tasks[i].upd.user), db_ok \in BOOLEAN :
          LET u   == tasks[i].upd
              val == lower(u.args[1]) = <<"o", "n">>
              s   == get_settings(u.chat)
          IN  \/ Gate(i, res)
              \/ /\ Passed(res)
                 /\ IF u.args = <<>> \/ lower(u.args[1]) \notin {<<"o", "n">>, <<"o", "f", "f">>}
                    THEN Reply(i, res, "usage")
                    ELSE Save(i, res, db_ok,
                              save_settings(u.chat, s.ttl, s.enabled, val, s.types))
    /\ UNCHANGED <<env, update_queue>>

\* the set of types /types reads from its arguments
TypesOf(args) ==
    LET raw   == remove(join(Str(" "), args), " ")
        parts == { lower(strip(q)) : q \in { p \in Range(split(raw, ",")) : strip(p) # <<>> } }
    IN  parts

cmd_types(i) ==
    /\ InLookup(i, "types")
    /\ \E res \in LookupResults(tasks[i].upd.chat, tasks[i].upd.user), db_ok \in BOOLEAN :
          LET u     == tasks[i].upd
              types == TypesOf(u.args)
              bad   == { t \in types : t \notin VALID_TYPES }
              s     == get_settings(u.chat)
          IN  \/ Gate(i, res)
              \/ /\ Passed(res)
                 /\ IF u.args = <<>> THEN Reply(i, res, "usage")
                    ELSE IF bad # {} THEN Reply(i, res, "invalid")
                    ELSE Save(i, res, db_ok,
                              save_settings(u.chat, s.ttl, s.enabled, s.delete_admins, types))
    /\ UNCHANGED <<env, update_queue>>

---------------------------------------------------------------------------
(* handle_media after its awaits *)

\* a handler that catches the lookup's error and takes the author for no admin
handle_media_member_closed(i) ==
    /\ InLookup(i, "media")
    /\ \E res \in LookupResults(tasks[i].upd.chat, tasks[i].upd.user) :
          IF res # LookupError /\ IsAdminStatus(res) THEN Finish(i, "returned", res)
          ELSE tasks' = [tasks EXCEPT ![i] = Sleeping(tasks[i].upd, tasks[i].s, res)]
    /\ UNCHANGED <<env, group_settings, update_queue>>

\* a handler that takes the status an earlier message of the author was
\* answered with, and looks the author up only when there is none
handle_media_member_cached(i) ==
    /\ InLookup(i, "media")
    /\ LET known == { j \in 1..(i - 1) :
                        /\ tasks[j].upd.cmd = "media"
                        /\ tasks[j].upd.chat = tasks[i].upd.chat
                        /\ tasks[j].upd.user = tasks[i].upd.user
                        /\ tasks[j].member \notin {None, LookupError} }
       IN  \E res \in IF known = {}
                      THEN LookupResults(tasks[i].upd.chat, tasks[i].upd.user)
                      ELSE { tasks[j].member : j \in known } :
              IF res = LookupError THEN Finish(i, "raised", res)
              ELSE IF IsAdminStatus(res) THEN Finish(i, "returned", res)
              ELSE tasks' = [tasks EXCEPT ![i] = Sleeping(tasks[i].upd, tasks[i].s, res)]
    /\ UNCHANGED <<env, group_settings, update_queue>>

\* a handler that reads the settings again once the lookup has answered
handle_media_member_reread(i) ==
    /\ InLookup(i, "media")
    /\ \E res \in LookupResults(tasks[i].upd.chat, tasks[i].upd.user) :
          IF res = LookupError THEN Finish(i, "raised", res)
          ELSE IF IsAdminStatus(res) THEN Finish(i, "returned", res)
          ELSE tasks' = [tasks EXCEPT ![i] =
                            Sleeping(tasks[i].upd, get_settings(tasks[i].upd.chat), res)]
    /\ UNCHANGED <<env, group_settings, update_queue>>

\* get_chat_member returns to handle_media: an error leaves the handler, an
\* admin's message is left alone, any other author's message starts the sleep
handle_media_member(i) ==
    /\ InLookup(i, "media")
    /\ \E res \in LookupResults(tasks[i].upd.chat, tasks[i].upd.user) :
          IF res = LookupError THEN Finish(i, "raised", res)
          ELSE IF IsAdminStatus(res) THEN Finish(i, "returned", res)
          ELSE tasks' = [tasks EXCEPT ![i] = Sleeping(tasks[i].upd, tasks[i].s, res)]
    /\ UNCHANGED <<env, group_settings, update_queue>>

\* a sleep that takes its delay for milliseconds
SleepIsOver_millis(f) == f.slept * 1000 >= f.s.ttl

\* asyncio.sleep(int(s["ttl"])) is over once the delay has passed
SleepIsOver(f) == f.slept >= f.s.ttl

\* a handler that reads the settings again after its sleep and gives up when
\* the group no longer asks for the deletion
sleep_returns_recheck(i) ==
    /\ i \in 1..Len(tasks)
    /\ tasks[i].pc = "sleep"
    /\ tasks[i].slept >= tasks[i].s.ttl
    /\ LET s == get_settings(tasks[i].upd.chat)
       IN  IF s.enabled /\ detect_media_type(tasks[i].upd.probes) \in s.types
           THEN tasks' = [tasks EXCEPT ![i].pc = "delete", ![i].attempts = @ + 1]
           ELSE Finish(i, "returned", tasks[i].member)
    /\ UNCHANGED <<env, group_settings, update_queue>>

\* the sleep returns and msg.delete() sends the request
sleep_returns(i) ==
    /\ i \in 1..Len(tasks)
    /\ tasks[i].pc = "sleep"
    /\ SleepIsOver(tasks[i])
    /\ tasks' = [tasks EXCEPT ![i].pc = "delete",
                              ![i].attempts = @ + 1]
    /\ UNCHANGED <<env, group_settings, update_queue>>

\* a handler without the except clause: the failure leaves it
AfterDelete_raises(f, ok) ==
    [f EXCEPT !.pc = "done", !.result = IF ok THEN "Deleted" ELSE "raised"]

\* a handler that sends the request once more after a failure
AfterDelete_retry(f, ok) ==
    IF ok \/ f.attempts >= 2
    THEN [f EXCEPT !.pc = "done", !.result = IF ok THEN "Deleted" ELSE "Skipped"]
    ELSE [f EXCEPT !.attempts = @ + 1]

\* what the handler does with the answer to its delete request: whatever the
\* answer, it ends
AfterDelete(f, ok) ==
    [f EXCEPT !.pc = "done", !.result = IF ok THEN "Deleted" ELSE "Skipped"]

\* msg.delete() returns, or raises into the except clause
msg_delete(i) ==
    /\ i \in 1..Len(tasks)
    /\ tasks[i].pc = "delete"
    /\ \E ok \in BOOLEAN : tasks' = [tasks EXCEPT ![i] = AfterDelete(tasks[i], ok)]
    /\ UNCHANGED <<env, group_settings, update_queue>>

Sleepers == { i \in 1..Len(tasks) : tasks[i].pc = "sleep" /\ ~SleepIsOver(tasks[i]) }

\* the clock steps the model takes: one unit, or what a sleeper has left
TimeSteps ==
    { d \in {1} : \E i \in Sleepers : tasks[i].slept < MaxTime }
    \cup { tasks[i].s.ttl - tasks[i].slept : i \in Sleepers }

\* time passes for the handlers that sleep
Tick ==
    /\ \E d \in TimeSteps :
          tasks' = [ i \in 1..Len(tasks) |->
                       IF i \in Sleepers
                       THEN [tasks[i] EXCEPT !.slept = @ + d]
                       ELSE tasks[i] ]
    /\ UNCHANGED <<env, group_settings, update_queue>>

---------------------------------------------------------------------------
(* Specifications *)

Handlers(concurrent) ==
    \/ cmd_start(concurrent)
    \/ cmd_status(concurrent)
    \/ require_admin(concurrent)
    \/ handle_media(concurrent)

Steps ==
    \/ \E u \in Updates : Deliver(u)
    \/ \E i \in 1..MaxUpdates : cmd_setttl(i)
    \/ \E i \in 1..MaxUpdates : cmd_pause(i)
    \/ \E i \in 1..MaxUpdates : cmd_resume(i)
    \/ \E i \in 1..MaxUpdates : cmd_deleteadmins(i)
    \/ \E i \in 1..MaxUpdates : cmd_types(i)
    \/ \E i \in 1..MaxUpdates : handle_media_member(i)
    \/ \E i \in 1..MaxUpdates : sleep_returns(i)
    \/ \E i \in 1..MaxUpdates : msg_delete(i)
    \/ Tick

\* the program as main() builds it
Next == Handlers(concurrent_updates) \/ Steps

Spec == Init /\ [][Next]_vars

\* the same handlers under a dispatcher that starts the handler of the next
\* update while earlier handlers are suspended.  Next implies NextConcurrent,
\* so every behaviour of Spec is a behaviour of SpecConcurrent.
NextConcurrent == Handlers(TRUE) \/ Steps

SpecConcurrent == Init /\ [][NextConcurrent]_vars

\* time passes, the event loop resumes a handler whose sleep is over, and the
\* platform answers a delete request or the request times out
Progress ==
    \/ Tick
    \/ \E i \in 1..MaxUpdates : sleep_returns(i)
    \/ \E i \in 1..MaxUpdates : msg_delete(i)

Fairness == WF_vars(Progress)

FairSpec == Spec /\ Fairness

---------------------------------------------------------------------------
(* parse_seconds on the strings that write a number of seconds *)

\* the largest number of seconds taken whether or not it is a whole minute
MaxPlain == 700

DigitSym(d) ==
    CASE d = 0 -> "0" [] d = 1 -> "1" [] d = 2 -> "2" [] d = 3 -> "3"
      [] d = 4 -> "4" [] d = 5 -> "5" [] d = 6 -> "6" [] d = 7 -> "7"
      [] d = 8 -> "8" [] d = 9 -> "9"

\* the decimal string of n
RECURSIVE str(_)
str(n) == IF n < 10 THEN <<DigitSym(n)>> ELSE str(n \div 10) \o <<DigitSym(n % 10)>>

\* the strings that write n seconds: in seconds, and in whole minutes, hours
\* and days when n is a whole number of them
Formats(n) ==
    {str(n)}
    \cup (IF n % 60 = 0 THEN {str(n \div 60) \o <<"m">>} ELSE {})
    \cup (IF n % 3600 = 0 THEN {str(n \div 3600) \o <<"h">>} ELSE {})
    \cup (IF n % 86400 = 0 THEN {str(n \div 86400) \o <<"d">>} ELSE {})

\* the numbers of seconds tried: every whole minute of the range, every
\* number up to MaxPlain, and the last two numbers of the range
RoundTripSeconds ==
    { n \in TTL_MIN..TTL_MAX : n <= MaxPlain \/ n % 60 = 0 \/ n >= TTL_MAX - 1 }

\* a process started with DEFAULT_TTL = n whose first update is an
\* administrator's /setttl with n written in one of its formats
InitParse ==
    /\ DEFAULT_TTL \in RoundTripSeconds
    /\ DEFAULT_ENABLED = TRUE
    /\ DEFAULT_DELETE_ADMINS = FALSE
    /\ DEFAULT_TYPES = {Str("photo"), Str("video"), Str("document")}
    /\ group_settings = <<>>
    /\ \E a \in Formats(DEFAULT_TTL) :
          update_queue = << Upd("setttl", "G1", "U1", <<a>>, {}) >>
    /\ tasks = <<>>

NextParse ==
    \/ require_admin(concurrent_updates)
    \/ \E i \in 1..MaxUpdates : cmd_setttl(i)

SpecParse == InitParse /\ [][NextParse]_vars

---------------------------------------------------------------------------
(* detect_media_type on every combination of the attributes it tests *)

\* the attributes of a message that detect_media_type tests
Probes == {"photo", "video", "document", "voice", "sticker", "animation", "video_note"}

\* a process started with MEDIA_TYPES set to one kind and DELETE_ADMINS on,
\* whose first update is a group message with any of the attributes present
InitClassify ==
    /\ DEFAULT_TTL = 300
    /\ DEFAULT_ENABLED = TRUE
    /\ DEFAULT_DELETE_ADMINS = TRUE
    /\ \E k \in VALID_TYPES : DEFAULT_TYPES = {k}
    /\ group_settings = <<>>
    /\ \E probes \in SUBSET Probes :
          update_queue = << Upd("media", "G1", "U2", <<>>, probes) >>
    /\ tasks = <<>>

NextClassify == handle_media(concurrent_updates)

SpecClassify == InitClassify /\ [][NextClassify]_vars

---------------------------------------------------------------------------
(* The program while the platform changes the role of an author *)

\* updates delivered in one run with changes of role
MaxRoleUpdates == 3

\* a member of G1 posts photos, and is made an administrator and a member
\* again
RoleUpdates ==
    { Upd("promoted", "G1", "U2", <<>>, {}),
      Upd("demoted", "G1", "U2", <<>>, {}),
      Upd("media", "G1", "U2", <<>>, {"photo"}) }

\* run_polling puts a fetched update on the queue
Deliver_roles(u) ==
    /\ Delivered < MaxRoleUpdates
    /\ update_queue' = Append(update_queue, u)
    /\ UNCHANGED <<env, group_settings, tasks>>

\* run_polling asks for the updates of every kind, and no handler is
\* registered for a change of role: the application drops the update
no_handler(concurrent) ==
    /\ CanDispatch(concurrent)
    /\ Next_update.cmd \in RoleEvents
    /\ Dispatch(concurrent, Ended(Next_update, NoSettings, "ignored"))

NextRoles ==
    \/ \E u \in RoleUpdates : Deliver_roles(u)
    \/ no_handler(concurrent_updates)
    \/ handle_media(concurrent_updates)
    \/ \E i \in 1..MaxRoleUpdates : handle_media_member(i)
    \/ \E i \in 1..MaxRoleUpdates : sleep_returns(i)
    \/ \E i \in 1..MaxRoleUpdates : msg_delete(i)
    \/ Tick

SpecRoles == Init /\ [][NextRoles]_vars

---------------------------------------------------------------------------
(* Properties *)

Frames == 1..Len(tasks)

IsMedia(f) == f.upd.cmd = "media"

\* the handler of frame f has begun its sleep at some point
Scheduled(f) == f.pc \in {"sleep", "delete"} \/ f.result \in {"Deleted", "Skipped"}

\* the handler of frame f has decided whether to sleep
Decided(f) == f.pc \in {"sleep", "delete", "done"}

\* C1: a message found eligible with resolved TTL T gets at most one delete
\* request, and the request is sent only once T time units have passed since
\* its sleep began, after the sleep has returned.
C1_OneDeleteAfterTtl ==
    \A i \in Frames :
        LET f == tasks[i]
        IN  /\ f.attempts <= 1
            /\ f.attempts = 1 =>
                  /\ IsMedia(f)
                  /\ f.slept >= f.s.ttl
                  /\ f.pc \in {"delete", "done"}
            /\ f.pc = "sleep" => f.attempts = 0

C1_Witness ==
    \E i \in Frames :
        /\ tasks[i].result = "Deleted"
        /\ tasks[i].attempts = 1
        /\ tasks[i].s.ttl = 300
        /\ tasks[i].slept = 300

\* the four conditions of eligibility, on the settings the handler resolved
Eligible(f) ==
    /\ ChatType(f.upd.chat) \in {"group", "supergroup"}
    /\ f.s.enabled
    /\ \E k \in VALID_TYPES : k = detect_media_type(f.upd.probes) /\ k \in f.s.types
    /\ \/ f.s.delete_admins
       \/ f.upd.user = None
       \/ MemberStatus(f.upd.chat, f.upd.user) \notin {"administrator", "creator"}

\* C2 as stated: a message is scheduled for deletion if and only if its chat
\* is a group, enabled is true, its kind is in media_types, and delete_admins
\* is true or its author is no admin; no delete request is sent otherwise.
C2_ScheduledIffEligible ==
    \A i \in Frames :
        LET f == tasks[i]
        IN  IsMedia(f) /\ Decided(f) =>
                /\ Scheduled(f) <=> Eligible(f)
                /\ f.attempts > 0 => Eligible(f)

\* C2 amended: the same, given that the membership lookup, when the handler
\* makes one, answers; when it raises, the message is not scheduled.
C2_ScheduledIffEligibleAndLookupOk ==
    \A i \in Frames :
        LET f == tasks[i]
        IN  IsMedia(f) /\ Decided(f) =>
                /\ Scheduled(f) <=> (Eligible(f) /\ f.member # LookupError)
                /\ f.attempts > 0 => Eligible(f)
                /\ f.member # None <=>
                      (~f.s.delete_admins /\ f.upd.user # None /\ f.s.enabled
                       /\ detect_media_type(f.upd.probes) \in f.s.types)

C2_Witness ==
    /\ \E i \in Frames :
          (/\ IsMedia(tasks[i]) /\ Scheduled(tasks[i]) /\ tasks[i].member = "member"
           /\ ~tasks[i].s.delete_admins)
    /\ \E j \in Frames :
          (/\ IsMedia(tasks[j]) /\ tasks[j].pc = "done" /\ ~Scheduled(tasks[j])
           /\ tasks[j].member = "creator")

\* C3: a handler that waits out a TTL does not keep the next update from being
\* handled: whenever a deletion is waiting and an update is on the queue, the
\* application can call that update's handler.
C3_WaitDoesNotBlock ==
    (update_queue # <<>> /\ \E i \in Frames : tasks[i].pc = "sleep")
        => ENABLED Handlers(concurrent_updates)

\* C4: every deletion that was scheduled leaves its wait and ends as Deleted
\* or as Skipped.
C4_EndsDeletedOrSkipped ==
    \A i \in 1..MaxUpdates :
        (i <= Len(tasks) /\ tasks[i].pc = "sleep")
            ~> (i <= Len(tasks) /\ tasks[i].pc = "done"
                /\ tasks[i].result \in {"Deleted", "Skipped"})

C4_Witness ==
    \E i \in Frames :
        /\ tasks[i].pc = "done"
        /\ tasks[i].result = "Skipped"
        /\ tasks[i].slept >= tasks[i].s.ttl
        /\ tasks[i].member = "member"

\* C5: a failed delete request is discarded: the handler returns as after a
\* request that succeeded, it has sent one request and sends no other, and the
\* application goes on to the next update.
C5_DeleteFailureDiscarded ==
    /\ \A i \in Frames :
          tasks[i].attempts > 0 /\ tasks[i].pc = "done" =>
              /\ tasks[i].result \in {"Deleted", "Skipped"}
              /\ tasks[i].attempts = 1
    /\ ( /\ update_queue # <<>>
          /\ (\E i \in Frames : tasks[i].result = "Skipped")
          /\ (\A j \in Frames : tasks[j].pc = "done") )
          => ENABLED Handlers(concurrent_updates)

C5_Witness ==
    \E i, j \in Frames :
        /\ i < j
        /\ tasks[i].result = "Skipped"
        /\ tasks[j].pc = "done"
        /\ tasks[j].result = "saved"

\* C6: once a handler sleeps, no later change of the group's settings cancels
\* the deletion: the only way out of the sleep is into the delete request.
C6_NoCancellation ==
    [][ \A i \in Frames :
           tasks[i].pc = "sleep" =>
               \/ tasks'[i].pc = "sleep" /\ tasks'[i].attempts = 0
               \/ tasks'[i].pc = "delete" /\ tasks'[i].attempts = 1 ]_vars

\* a handler sleeps on settings that asked for the deletion while the stored
\* settings of its group, changed since, no longer do
C6_Witness ==
    \E i, j \in Frames :
        /\ tasks[i].pc = "sleep"
        /\ tasks[i].slept >= tasks[i].s.ttl
        /\ tasks[i].s.enabled
        /\ tasks[j].upd.chat = tasks[i].upd.chat
        /\ tasks[j].upd.cmd = "pause"
        /\ tasks[j].result = "saved"
        /\ ~get_settings(tasks[i].upd.chat).enabled

\* the step is the return of get_chat_member into the gated command of frame i
Returns(i) == tasks[i].pc = "get_chat_member" /\ tasks'[i].pc = "done"

\* C7: the table changes only in the step of a gated command whose lookup
\* answered administrator or owner; a command whose lookup failed or answered
\* another status leaves every row as it was.
C7_OnlyAdminsWrite ==
    [][ /\ group_settings' # group_settings =>
              \E i \in Frames :
                  /\ Returns(i)
                  /\ tasks[i].upd.cmd \in GatedCommands
                  /\ tasks'[i].member \in {"administrator", "creator"}
                  /\ MemberStatus(tasks[i].upd.chat, tasks[i].upd.user)
                        \in {"administrator", "creator"}
        /\ \A i \in Frames :
              /\ Returns(i)
              /\ tasks'[i].member \notin {"administrator", "creator"}
              => (group_settings' = group_settings /\ tasks'[i].result \in {"rejected", "raised"})
      ]_vars

C7_Witness ==
    /\ group_settings = <<>>
    /\ \E i, j \in Frames :
          /\ tasks[i].upd.cmd = "pause" /\ tasks[i].member = "member"
          /\ tasks[i].result = "rejected"
          /\ tasks[j].upd.cmd \in GatedCommands /\ tasks[j].member = LookupError
          /\ tasks[j].result = "raised"

\* the arguments the claim names: malformed TTLs, TTLs out of range, a type
\* outside the enumeration, and a switch that is neither on nor off
InvalidArgs(u) ==
    \/ /\ u.cmd = "setttl"
       /\ u.args # <<>>
       /\ u.args[1] \in { <<"a", "b", "c">>, <<"1", "0", "x">>, <<"-", "5">>,
                          <<"5">>, <<"8", "d">> }
    \/ /\ u.cmd = "types"
       /\ u.args = << <<"photo", ",", "banana">> >>
    \/ /\ u.cmd = "deleteadmins"
       /\ u.args # <<>>
       /\ u.args[1] = <<"x">>

\* C8: a command whose argument fails validation changes no row.
C8_InvalidArgsWriteNothing ==
    [][ \A i \in Frames :
           Returns(i) /\ InvalidArgs(tasks[i].upd) =>
               /\ group_settings' = group_settings
               /\ tasks'[i].result # "saved" ]_vars

C8_Witness ==
    \E i, j \in Frames :
        /\ j < i
        /\ tasks[j].result = "saved"
        /\ tasks[i].upd.chat = tasks[j].upd.chat
        /\ tasks[i].upd.cmd \in {"setttl", "types"}
        /\ tasks[i].result = "invalid"
        /\ tasks[i].member = "creator"

\* what resolving returns after command u, given what it returned before
Expected(u, before) ==
    CASE u.cmd = "pause" -> [before EXCEPT !.enabled = FALSE]
      [] u.cmd = "resume" -> [before EXCEPT !.enabled = TRUE]
      [] u.cmd = "deleteadmins" ->
            [before EXCEPT !.delete_admins = (u.args[1] = <<"o", "n">>)]
      [] u.cmd = "setttl" ->
            [before EXCEPT !.ttl = IF u.args[1] = <<"1", "0">> THEN 10 ELSE 60]
      [] u.cmd = "types" ->
            [before EXCEPT !.types =
                IF u.args = << <<",">> >> THEN {} ELSE {Str("photo"), Str("voice")}]

\* C9: a group without a row resolves to the defaults, and after a command
\* that saved, the group resolves to what it resolved to before with the one
\* field of the command changed.
C9_DefaultsAndFrame ==
    /\ [](\A c \in Chats :
             c \notin DOMAIN group_settings =>
                 get_settings(c) = [ ttl |-> DEFAULT_TTL, enabled |-> DEFAULT_ENABLED,
                                     delete_admins |-> DEFAULT_DELETE_ADMINS,
                                     types |-> DEFAULT_TYPES ])
    /\ [][ \A i \in Frames :
              Returns(i) /\ tasks'[i].result = "saved" =>
                  SettingsIn(group_settings', tasks[i].upd.chat)
                     = Expected(tasks[i].upd, SettingsIn(group_settings, tasks[i].upd.chat))
         ]_vars

C9_Witness ==
    /\ DEFAULT_TTL = 5
    /\ \E i \in Frames :
          /\ tasks[i].upd.cmd = "deleteadmins"
          /\ tasks[i].result = "saved"
          /\ DOMAIN group_settings = {tasks[i].upd.chat}
          /\ get_settings(tasks[i].upd.chat) =
                [ttl |-> 5, enabled |-> FALSE, delete_admins |-> FALSE,
                 types |-> {Str("voice")}]

\* C10: a step of a handler for one chat leaves the row of every other chat
\* as it is: none is created, changed or removed.
C10_OtherGroupsUntouched ==
    [][ \A i \in Frames :
           tasks'[i] # tasks[i] =>
               \A c \in Chats \ {tasks[i].upd.chat} :
                   /\ c \in DOMAIN group_settings' <=> c \in DOMAIN group_settings
                   /\ c \in DOMAIN group_settings => group_settings'[c] = group_settings[c]
      ]_vars

C10_Witness ==
    /\ DOMAIN group_settings = {"G1", "G2"}
    /\ group_settings["G1"] # group_settings["G2"]
    /\ \E i, j \in Frames :
          /\ tasks[i].upd.chat = "G1" /\ tasks[i].result = "saved"
          /\ tasks[j].upd.chat = "G2" /\ tasks[j].result = "saved"

\* C11: a message whose membership lookup failed is not scheduled: its handler
\* has ended with the error, it has not slept and it has sent no delete
\* request; and once it has ended the application can take the next update.
C11_LookupFailureSkips ==
    /\ \A i \in Frames :
          IsMedia(tasks[i]) /\ tasks[i].member = LookupError =>
              /\ tasks[i].pc = "done"
              /\ tasks[i].result = "raised"
              /\ tasks[i].slept = 0
              /\ tasks[i].attempts = 0
    /\ ( /\ update_queue # <<>>
          /\ (\E i \in Frames : IsMedia(tasks[i]) /\ tasks[i].member = LookupError)
          /\ (\A j \in Frames : tasks[j].pc = "done") )
          => ENABLED Handlers(concurrent_updates)

C11_Witness ==
    \E i, j \in Frames :
        /\ i < j
        /\ IsMedia(tasks[i])
        /\ tasks[i].member = LookupError
        /\ IsMedia(tasks[j])
        /\ tasks[j].member = "member"
        /\ tasks[j].result = "Deleted"

\* C12: every row of the table holds a TTL of 10 seconds to 7 days, whatever
\* commands have been handled, the first command on a group without a row
\* included.
C12_StoredTtlInRange ==
    \A c \in DOMAIN group_settings :
        /\ group_settings[c].ttl_seconds >= TTL_MIN
        /\ group_settings[c].ttl_seconds <= TTL_MAX

\* the frames a step creates or changes
Touched == { i \in 1..Len(tasks') : i > Len(tasks) \/ tasks'[i] # tasks[i] }

\* C13: a group has a row only once a gated command on it has saved; the table
\* changes only in the step in which a gated command saves, and then only by
\* the row of that command's group; a step of /status, /start or a media
\* handler, and the end of a command that was rejected or did not save,
\* leave the table as it was.
C13_NoRowBeforeFirstSave ==
    /\ [](\A c \in DOMAIN group_settings :
             \E i \in Frames :
                 /\ tasks[i].upd.chat = c
                 /\ tasks[i].upd.cmd \in GatedCommands
                 /\ tasks[i].result = "saved")
    /\ [][ /\ group_settings' # group_settings =>
                 \E i \in Frames :
                     /\ Returns(i)
                     /\ tasks'[i].result = "saved"
                     /\ DOMAIN group_settings' = DOMAIN group_settings \cup {tasks[i].upd.chat}
           /\ \A i \in Touched :
                 ( \/ tasks'[i].upd.cmd \in {"status", "start", "media"}
                   \/ tasks'[i].pc = "done" /\ tasks'[i].result # "saved" )
                 => group_settings' = group_settings
         ]_vars

C13_Witness ==
    /\ group_settings = <<>>
    /\ \E i, j \in Frames :
          /\ tasks[i].upd.cmd = "status"
          /\ tasks[i].result = "replied"
          /\ tasks[i].s.ttl = DEFAULT_TTL
          /\ tasks[j].upd.chat = tasks[i].upd.chat
          /\ IsMedia(tasks[j])
          /\ tasks[j].result = "Deleted"

\* C14: for n seconds in [10, 604800], parse_seconds of the decimal string of
\* n is n, and so is parse_seconds of n written in whole minutes, hours or
\* days; the /setttl that carries such a string is never answered as invalid
\* and the TTL it stores is n.
C14_ParseRoundTrip ==
    /\ \A k \in 1..Len(update_queue) :
          LET u == update_queue[k]
          IN  u.cmd = "setttl" /\ u.args # <<>> /\ u.args[1] \in Formats(DEFAULT_TTL)
                 => parse_seconds(u.args[1]) = Seconds(DEFAULT_TTL)
    /\ \A i \in Frames :
          LET f == tasks[i]
          IN  /\ f.pc = "get_chat_member" /\ f.upd.args[1] \in Formats(DEFAULT_TTL)
                 => parse_seconds(f.upd.args[1]) = Seconds(DEFAULT_TTL)
              /\ f.pc = "done" /\ f.member \in {"administrator", "creator"}
                 => f.result \in {"saved", "raised"}
              /\ f.result = "saved"
                 => group_settings[f.upd.chat].ttl_seconds = DEFAULT_TTL

C14_Witness ==
    /\ DEFAULT_TTL = TTL_MAX
    /\ \E i \in Frames :
          /\ tasks[i].upd.cmd = "setttl"
          /\ tasks[i].result = "saved"
          /\ group_settings[tasks[i].upd.chat].ttl_seconds = 7 * 86400

\* the handler of a group's media message whose read of the table failed: it
\* holds no settings
StoreFailed(f) ==
    /\ IsMedia(f)
    /\ ChatType(f.upd.chat) \in {"group", "supergroup"}
    /\ f.s = NoSettings

\* C15: a media message whose read of the table failed is not deleted: its
\* handler has ended with the error before any lookup, sleep or delete
\* request; and once it has ended the application can take the next update.
C15_StoreFailureSkips ==
    /\ \A i \in Frames :
          StoreFailed(tasks[i]) =>
              /\ tasks[i].pc = "done"
              /\ tasks[i].result = "raised"
              /\ tasks[i].member = None
              /\ tasks[i].slept = 0
              /\ tasks[i].attempts = 0
    /\ ( /\ update_queue # <<>>
          /\ (\E i \in Frames : StoreFailed(tasks[i]))
          /\ (\A j \in Frames : tasks[j].pc = "done") )
          => ENABLED Handlers(concurrent_updates)

C15_Witness ==
    \E i, j \in Frames :
        /\ i < j
        /\ StoreFailed(tasks[i])
        /\ tasks[i].result = "raised"
        /\ IsMedia(tasks[j])
        /\ tasks[j].upd.chat = tasks[i].upd.chat
        /\ tasks[j].result = "Deleted"

\* the order of classification the specification fixes
ClassifyOrder ==
    <<"photo", "video", "document", "voice", "sticker", "animation", "video_note">>

\* the earliest kind of ClassifyOrder among the attributes present
FirstMatch(probes) ==
    IF \A k \in 1..Len(ClassifyOrder) : ClassifyOrder[k] \notin probes THEN NoMedia
    ELSE Str(ClassifyOrder[CHOOSE k \in 1..Len(ClassifyOrder) :
                              /\ ClassifyOrder[k] \in probes
                              /\ \A j \in 1..(k - 1) : ClassifyOrder[j] \notin probes])

\* C16: detect_media_type returns the earliest present kind in the order
\* photo, video, document, voice, sticker, animation, video_note, and none
\* exactly when no attribute is present; the handler goes on to the deletion
\* exactly when that earliest kind is one of the group's types.
C16_FirstMatchClassification ==
    /\ \A k \in 1..Len(update_queue) :
          LET probes == update_queue[k].probes
          IN  /\ detect_media_type(probes) = FirstMatch(probes)
              /\ detect_media_type(probes) = NoMedia <=> probes = {}
    /\ \A i \in Frames :
          LET f == tasks[i]
          IN  IsMedia(f) /\ ~StoreFailed(f) /\ f.s.enabled
              /\ ChatType(f.upd.chat) \in {"group", "supergroup"} =>
                  /\ detect_media_type(f.upd.probes) = FirstMatch(f.upd.probes)
                  /\ (f.pc = "get_chat_member" \/ f.member # None \/ Scheduled(f))
                        <=> FirstMatch(f.upd.probes) \in f.s.types

C16_Witness ==
    \E i \in Frames :
        /\ tasks[i].upd.probes = {"sticker", "animation", "video_note"}
        /\ tasks[i].s.types = {Str("sticker")}
        /\ tasks[i].pc = "sleep"

\* the handler of frame f came to eligibility step 4 with an author to look up
NeedsLookup(f) ==
    /\ IsMedia(f)
    /\ ChatType(f.upd.chat) \in {"group", "supergroup"}
    /\ ~StoreFailed(f)
    /\ f.s.enabled
    /\ detect_media_type(f.upd.probes) \in f.s.types
    /\ ~f.s.delete_admins
    /\ f.upd.user # None

\* C17: every message that comes to step 4 in a group whose delete_admins is
\* false makes its own lookup: its handler starts in get_chat_member without
\* an answer, the answer it leaves the lookup with is the status the platform
\* holds for the author at that moment (or the error), and that answer
\* decides the message.
C17_LookupPerMessage ==
    /\ [](\A i \in Frames :
             NeedsLookup(tasks[i]) =>
                 /\ tasks[i].pc = "get_chat_member" <=> tasks[i].member = None
                 /\ tasks[i].pc # "get_chat_member" =>
                       (Scheduled(tasks[i]) <=>
                           tasks[i].member \notin {"administrator", "creator", LookupError}))
    /\ [][ /\ \A i \in Touched :
                 i > Len(tasks) /\ NeedsLookup(tasks'[i]) =>
                     tasks'[i].pc = "get_chat_member" /\ tasks'[i].member = None
           /\ \A i \in Frames :
                 IsMedia(tasks[i]) /\ tasks[i].pc = "get_chat_member"
                 /\ tasks'[i].pc # "get_chat_member" =>
                     tasks'[i].member \in
                        {get_chat_member(tasks[i].upd.chat, tasks[i].upd.user), LookupError}
         ]_vars

C17_Witness ==
    \E i, j \in Frames :
        /\ i < j
        /\ NeedsLookup(tasks[i])
        /\ NeedsLookup(tasks[j])
        /\ tasks[i].upd.user = tasks[j].upd.user
        /\ tasks[i].upd.chat = tasks[j].upd.chat
        /\ tasks[i].member = "member"
        /\ tasks[i].result = "Deleted"
        /\ tasks[j].member = "administrator"
        /\ tasks[j].result = "returned"

\* a command cmd on chat c has saved
Saved(c, cmd) ==
    \E i \in Frames :
        tasks[i].upd.chat = c /\ tasks[i].upd.cmd = cmd /\ tasks[i].result = "saved"

\* the TTLs and the sets of types the commands of the model save
SavedTtls ==
    { parse_seconds(a).val : a \in { b \in TtlArgs :
         /\ parse_seconds(b).ok
         /\ parse_seconds(b).val >= TTL_MIN
         /\ parse_seconds(b).val <= TTL_MAX } }

SavedTypes == { TypesOf(a) : a \in { b \in TypesArgs : TypesOf(b) \subseteq VALID_TYPES } }

\* C18: no saved change is lost to a command that changes another field,
\* however the handlers interleave: once a /setttl has saved, the group's TTL
\* is one a /setttl saves; once a /types has saved, its types are a set a
\* /types saves; once a /pause and no /resume has saved, the group is
\* disabled, and the other way round.  (No default of the model is a TTL or a
\* set of types that a command of the model saves.)
C18_NoLostUpdate ==
    \A c \in Chats :
        LET s == get_settings(c)
        IN  /\ Saved(c, "setttl") => s.ttl \in SavedTtls
            /\ Saved(c, "types") => s.types \in SavedTypes
            /\ Saved(c, "pause") /\ ~Saved(c, "resume") => ~s.enabled
            /\ Saved(c, "resume") /\ ~Saved(c, "pause") => s.enabled

C18_Witness ==
    \E i, j \in Frames :
        /\ i # j
        /\ tasks[i].upd.chat = tasks[j].upd.chat
        /\ tasks[i].upd.cmd = "setttl" /\ tasks[i].result = "saved"
        /\ tasks[j].upd.cmd = "pause" /\ tasks[j].result = "saved"
        /\ DEFAULT_ENABLED
        /\ get_settings(tasks[i].upd.chat).ttl \in SavedTtls
        /\ ~get_settings(tasks[i].upd.chat).enabled

\* C19: the handler of a group's media message holds the settings the table
\* gave when the handler was called, before any lookup, and holds them
\* unchanged to its end; it leaves its sleep only into the delete request and
\* only once it has slept the TTL of those settings, and once it has slept
\* that long it can leave, whatever TTL the table holds by then.
C19_WaitLastsSnapshotTtl ==
    /\ [][ /\ \A i \in Touched :
                 ( /\ i > Len(tasks)
                   /\ IsMedia(tasks'[i])
                   /\ ChatType(tasks'[i].upd.chat) \in {"group", "supergroup"}
                   /\ ~StoreFailed(tasks'[i]) )
                 => tasks'[i].s = get_settings(tasks'[i].upd.chat)
           /\ \A i \in Frames :
                 IsMedia(tasks[i]) =>
                     /\ tasks'[i].s = tasks[i].s
                     /\ tasks[i].pc = "sleep" /\ tasks'[i].pc # "sleep" =>
                           /\ tasks'[i].pc = "delete"
                           /\ tasks[i].slept >= tasks[i].s.ttl
         ]_vars
    /\ [](\A i \in 1..MaxUpdates :
             i <= Len(tasks) /\ tasks[i].pc = "sleep" /\ tasks[i].slept >= tasks[i].s.ttl
                 => ENABLED sleep_returns(i))

C19_Witness ==
    \E i, j \in Frames :
        /\ i < j
        /\ IsMedia(tasks[i])
        /\ tasks[i].pc = "delete"
        /\ tasks[i].s.ttl = 300
        /\ tasks[i].slept = 300
        /\ tasks[j].upd.chat = tasks[i].upd.chat
        /\ tasks[j].upd.cmd = "setttl"
        /\ tasks[j].result = "saved"
        /\ get_settings(tasks[i].upd.chat).ttl = 10

\* C20: the handler of a media message without an author never makes a
\* lookup; in an enabled group whose types hold the kind of the message and
\* whose delete_admins is false, the message is scheduled for deletion.
C20_NoAuthorNoLookup ==
    \A i \in Frames :
        LET f == tasks[i]
        IN  IsMedia(f) /\ f.upd.user = None =>
                /\ f.pc # "get_chat_member"
                /\ f.member = None
                /\ ( /\ ChatType(f.upd.chat) \in {"group", "supergroup"}
                     /\ ~StoreFailed(f)
                     /\ f.s.enabled
                     /\ detect_media_type(f.upd.probes) \in f.s.types
                     /\ ~f.s.delete_admins )
                   => Scheduled(f)

C20_Witness ==
    \E i \in Frames :
        /\ IsMedia(tasks[i])
        /\ tasks[i].upd.user = None
        /\ ~tasks[i].s.delete_admins
        /\ tasks[i].member = None
        /\ tasks[i].result = "Deleted"

=============================================================================
